---- MODULE Spec2Model ----
(***************************************************************************)
(* Model of the Rwanda Infrastructure Management System, src/RIMS/main.cpp *)
(* (class InfrastructureManager and the two text files it keeps in sync).  *)
(*                                                                         *)
(* Conventions of the model                                                *)
(*  - a string (city name, road field) is a sequence of one-character      *)
(*    strings, so that find(" - ") and substr act on characters;           *)
(*  - positions are 1-based here (Sequences), 0-based in the source;       *)
(*    get_city_index returns 0 where the source returns -1;                *)
(*  - a double budget is an integer number of hundredths; the budget       *)
(*    column of the road file, written with setprecision(1), is an         *)
(*    integer number of tenths;                                            *)
(*  - a file is the sequence of its lines after the header line (which     *)
(*    both readers skip); an absent file reads like an empty one;          *)
(*  - the data directory is writable: both ofstream opens succeed;         *)
(*  - pc is where main stands: "menu" at the menu prompt, "add_road" or    *)
(*    "add_budget" at a prompt of that handler that comes again after an   *)
(*    answer was refused.  A handler is one step from its first prompt (or *)
(*    from a repeated one) to its return; the answers to its prompts are   *)
(*    drawn together, also after a refusal, which reaches no more states   *)
(*    than the source, where the answers already accepted stay.            *)
(***************************************************************************)
EXTENDS Integers, Sequences, FiniteSets, TLC

VARIABLES city_names, roads, budgets, cityFile, roadFile, pc

vars == <<city_names, roads, budgets, cityFile, roadFile, pc>>

\* the data of the manager and of the two files
data == <<city_names, roads, budgets, cityFile, roadFile>>

(***************************************************************************)
(* Bounds of the model.                                                    *)
(***************************************************************************)
\* caps on the growth of the city list, of the number of roads and of the
\* identifiers written, for runs from any start-up files ...
MaxCities == 2
MaxRoads == 1
MaxNbr == 2
\* ... and for runs from the empty store
FreshCities == 3
FreshRoads == 2
FreshNbr == 3
\* the most cities typed in one add_cities
MaxBatch == 2

\* the ceiling of the source (line 30)
MAX_CITIES == 500

(***************************************************************************)
(* Characters and names.                                                   *)
(***************************************************************************)
Alpha == {"K", "g", "H", "u", "M", "z", "X"}
Digit == {"7"}
Sep == <<" ", "-", " ">>

Kg == <<"K", "g">>
Hu == <<"H", "u">>
Mz == <<"M", "z">>
KgHu == Kg \o Sep \o Hu
Xx == <<"X", "X">>
Short == <<"K">>

\* names a user may type at a prompt: valid ones, one of them holding the
\* separator of the road column, and one too short to be valid
InputNames == {Kg, Hu, Mz, KgHu, Short}

\* the same without a separator in any name
PlainNames == {Kg, Hu, Mz, Xx, Short}

AllNames == InputNames \cup PlainNames

\* budgets a user may type, in hundredths: 0.00, 12.54, 1000.01
InputBudgets == {0, 1254, 100001}

IsAt(s, p, k) ==
    /\ k + Len(p) - 1 <= Len(s)
    /\ \A m \in 1..Len(p) : s[k + m - 1] = p[m]

\* string::find: position of the first occurrence, 0 for npos
Find(s, p) ==
    IF \E k \in 1..Len(s) : IsAt(s, p, k)
    THEN CHOOSE k \in 1..Len(s) :
            IsAt(s, p, k) /\ \A k2 \in 1..(k - 1) : ~IsAt(s, p, k2)
    ELSE 0

get_city_index(names, name) ==
    IF \E i \in 1..Len(names) : names[i] = name
    THEN CHOOSE i \in 1..Len(names) :
            names[i] = name /\ \A i2 \in 1..(i - 1) : names[i2] # name
    ELSE 0

city_exists(names, name) == get_city_index(names, name) # 0

is_valid_city_name(name) ==
    /\ Len(name) >= 2
    /\ \A k \in 1..Len(name) : name[k] \in Alpha \cup Digit \cup {" ", "-"}
    /\ \E k \in 1..Len(name) : name[k] \in Alpha

is_valid_budget(budget) == budget > 0 /\ budget <= 100000

is_valid_index(names, index) == index >= 1 /\ index <= Len(names)

(***************************************************************************)
(* Text of a budget: fixed, one decimal.  Tenths, rounded to nearest (no   *)
(* value of the model lies halfway between two tenths).                    *)
(***************************************************************************)
FormatBudget(budget) == (budget + 5) \div 10

ParseBudget(tenths) == tenths * 10

(***************************************************************************)
(* Lines of the two files.  A road line has the outcome of each parse step *)
(* the readers make: it holds two tabs or not, stoi accepts the first      *)
(* field or throws, stod accepts the third or throws.  A city line holds a *)
(* tab or not, and the text after the first tab.                           *)
(***************************************************************************)
RoadLine(nbr, city1, city2, budget) ==
    [tabs |-> TRUE, nbrOk |-> TRUE, nbr |-> nbr,
     road |-> city1 \o Sep \o city2,
     budgetOk |-> TRUE, budget |-> FormatBudget(budget)]

CityLine(name) == [tab |-> TRUE, name |-> name]

\* the fields a reader cuts out of the road column at the first " - "
Road_city1(road) == SubSeq(road, 1, Find(road, Sep) - 1)
Road_city2(road) == SubSeq(road, Find(road, Sep) + 3, Len(road))

(***************************************************************************)
(* save_cities_to_file: the whole list, in order.                          *)
(***************************************************************************)
save_cities_to_file(names) == [i \in 1..Len(names) |-> CityLine(names[i])]

(***************************************************************************)
(* Matrix growth for one added city (same code in load_cities_from_file    *)
(* and add_cities): every row is resized to n, a row of n zeros is pushed. *)
(***************************************************************************)
\* a row left at its length
Resize_Skipped(row, n) == row

Resize(row, n) == [c \in 1..n |-> IF c <= Len(row) THEN row[c] ELSE 0]

\* growth that builds the n x n matrix anew
Grow_Cleared(m, n) == [r \in 1..n |-> [c \in 1..n |-> 0]]

Grow(m, n) ==
    [r \in 1..(Len(m) + 1) |->
        IF r <= Len(m) THEN Resize(m[r], n) ELSE [c \in 1..n |-> 0]]

PushCity(st, name) ==
    [names |-> Append(st.names, name),
     roads |-> Grow(st.roads, Len(st.names) + 1),
     budgets |-> Grow(st.budgets, Len(st.names) + 1)]

EmptyState == [names |-> <<>>, roads |-> <<>>, budgets |-> <<>>]

(***************************************************************************)
(* load_cities_from_file                                                   *)
(***************************************************************************)
RECURSIVE load_cities_from_file(_, _)
load_cities_from_file(st, lines) ==
    IF lines = <<>> THEN st
    ELSE LET line == Head(lines)
             next == IF /\ line.tab
                        /\ is_valid_city_name(line.name)
                        /\ ~city_exists(st.names, line.name)
                     THEN PushCity(st, line.name)
                     ELSE st
         IN load_cities_from_file(next, Tail(lines))

(***************************************************************************)
(* load_roads_from_file                                                    *)
(***************************************************************************)
\* a write of one cell only, as a slip in lines 246-247, 329 or 365 would be
SetCell_OneWay(m, i, j, v) == [m EXCEPT ![i][j] = v]

\* a = b = v on the cells [i][j] and [j][i] (lines 246-247, 329, 365)
SetCell(m, i, j, v) == [m EXCEPT ![i][j] = v, ![j][i] = v]

\* the same without the budget check of line 245
LoadRoadLine_AnyBudget(st, line) ==
    IF ~line.tabs \/ ~line.budgetOk \/ Find(line.road, Sep) = 0 THEN st
    ELSE LET budget == ParseBudget(line.budget)
             i == get_city_index(st.names, Road_city1(line.road))
             j == get_city_index(st.names, Road_city2(line.road))
         IN IF i # 0 /\ j # 0
            THEN [st EXCEPT !.roads = SetCell(st.roads, i, j, 1),
                            !.budgets = SetCell(st.budgets, i, j, budget)]
            ELSE st

LoadRoadLine(st, line) ==
    IF ~line.tabs \/ ~line.budgetOk \/ Find(line.road, Sep) = 0 THEN st
    ELSE LET budget == ParseBudget(line.budget)
             i == get_city_index(st.names, Road_city1(line.road))
             j == get_city_index(st.names, Road_city2(line.road))
         IN IF i # 0 /\ j # 0 /\ is_valid_budget(budget)
            THEN [st EXCEPT !.roads = SetCell(st.roads, i, j, 1),
                            !.budgets = SetCell(st.budgets, i, j, budget)]
            ELSE st

RECURSIVE load_roads_from_file(_, _)
load_roads_from_file(st, lines) ==
    IF lines = <<>> THEN st
    ELSE load_roads_from_file(LoadRoadLine(st, Head(lines)), Tail(lines))

\* the constructor
InfrastructureManager(cf, rf) ==
    load_roads_from_file(load_cities_from_file(EmptyState, cf), rf)

(***************************************************************************)
(* save_roads_to_file                                                      *)
(***************************************************************************)
\* lines 112-144: the records of the prior file, in file order
RECURSIVE ReadExisting(_)
ReadExisting(lines) ==
    IF lines = <<>> THEN <<>>
    ELSE LET line == Head(lines)
             rest == ReadExisting(Tail(lines))
         IN IF /\ line.tabs
               /\ line.nbrOk
               /\ line.budgetOk
               /\ Find(line.road, Sep) # 0
            THEN <<[nbr |-> line.nbr,
                    city1 |-> Road_city1(line.road),
                    city2 |-> Road_city2(line.road),
                    budget |-> ParseBudget(line.budget)]>> \o rest
            ELSE rest

\* lines 159-160: the record is about the same two names, in either order
SamePair(entry, city1, city2) ==
    \/ entry.city1 = city1 /\ entry.city2 = city2
    \/ entry.city1 = city2 /\ entry.city2 = city1

\* lines 158-165: position of the first record that matches, 0 for none
FirstMatch(existing, city1, city2) ==
    IF \E k \in 1..Len(existing) : SamePair(existing[k], city1, city2)
    THEN CHOOSE k \in 1..Len(existing) :
            /\ SamePair(existing[k], city1, city2)
            /\ \A k2 \in 1..(k - 1) : ~SamePair(existing[k2], city1, city2)
    ELSE 0

\* line 169: the identifier of a road that matched no record
NextNbr(existing) ==
    IF existing = <<>> THEN 1 ELSE existing[Len(existing)].nbr + 1

\* the same, a matched road keeping the budget of its record
UpdatedEntry_FileBudget(st, existing, i, j) ==
    LET city1 == st.names[i]
        city2 == st.names[j]
        k == FirstMatch(existing, city1, city2)
    IN [nbr |-> IF k # 0 THEN existing[k].nbr ELSE NextNbr(existing),
        city1 |-> city1, city2 |-> city2,
        budget |-> IF k # 0 THEN existing[k].budget ELSE st.budgets[i][j]]

\* lines 152-171: the record pushed for the road between positions i < j
UpdatedEntry(st, existing, i, j) ==
    LET city1 == st.names[i]
        city2 == st.names[j]
        k == FirstMatch(existing, city1, city2)
    IN [nbr |-> IF k # 0 THEN existing[k].nbr ELSE NextNbr(existing),
        city1 |-> city1, city2 |-> city2, budget |-> st.budgets[i][j]]

\* lines 149-174: the two loops, i ascending and j from i + 1
RECURSIVE UpdatedRoads(_, _, _, _, _)
UpdatedRoads(st, existing, i, j, acc) ==
    IF i > Len(st.roads) THEN acc
    ELSE IF j > Len(st.roads[i]) THEN UpdatedRoads(st, existing, i + 1, i + 2, acc)
    ELSE UpdatedRoads(st, existing, i, j + 1,
            IF st.roads[i][j] = 1
            THEN Append(acc, UpdatedEntry(st, existing, i, j))
            ELSE acc)

\* lines 176-179: std::sort on nbr alone; the order of records with equal
\* nbr is unspecified, so every ordering sorted by nbr is an outcome
RECURSIVE SortedOrders(_, _)
SortedOrders(entries, idx) ==
    IF idx = {} THEN {<<>>}
    ELSE UNION {
            {<<entries[k]>> \o t : t \in SortedOrders(entries, idx \ {k})} :
            k \in {k1 \in idx : \A m \in idx : entries[k1].nbr <= entries[m].nbr}}

\* the records left in the order of the two loops
SortByNbr_LoopOrder(entries) == {entries}

SortByNbr(entries) == SortedOrders(entries, 1..Len(entries))

\* lines 182-189: the lines written
WriteRoads(entries) ==
    [k \in 1..Len(entries) |->
        RoadLine(entries[k].nbr, entries[k].city1, entries[k].city2,
                 entries[k].budget)]

\* the files save_roads_to_file can leave, given the prior file
save_roads_to_file(st, prior) ==
    {WriteRoads(sorted) :
        sorted \in SortByNbr(UpdatedRoads(st, ReadExisting(prior), 1, 2, <<>>))}

(***************************************************************************)
(* Files found at start-up.  The program's own files are reached from the  *)
(* empty store; the others are files edited outside the program.           *)
(***************************************************************************)
BadLine == [tabs |-> FALSE, nbrOk |-> FALSE, nbr |-> 0, road |-> <<>>,
            budgetOk |-> FALSE, budget |-> 0]

TextLine(nbr, city1, city2, tenths) ==
    [tabs |-> TRUE, nbrOk |-> TRUE, nbr |-> nbr,
     road |-> city1 \o Sep \o city2, budgetOk |-> TRUE, budget |-> tenths]

CityFileA == <<CityLine(Kg), CityLine(Hu), CityLine(Mz)>>

\* an invalid name, a duplicate, a line without a tab
CityFileB ==
    <<CityLine(Kg), CityLine(Short), CityLine(Kg),
      [tab |-> FALSE, name |-> Mz], CityLine(Hu)>>

\* one city
CityFileC == <<CityLine(Kg)>>

\* a record of an unknown city with the highest nbr, not last
RoadFileA == <<TextLine(3, Xx, Kg, 125), TextLine(1, Hu, Kg, 125)>>

\* a record whose two names are the same city
RoadFileB == <<TextLine(1, Kg, Kg, 125)>>

\* budgets outside 0 < b <= 1000 and two records of one pair
RoadFileC ==
    <<TextLine(1, Kg, Hu, 0), TextLine(2, Hu, Kg, 125),
      TextLine(3, Kg, Mz, 10001)>>

\* lines a reader cannot parse; stoi is called by the save only
RoadFileD ==
    <<BadLine, [TextLine(1, Kg, Hu, 125) EXCEPT !.nbrOk = FALSE],
      [TextLine(2, Hu, Mz, 125) EXCEPT !.budgetOk = FALSE]>>

\* two roads, the one of the later pair of positions first
RoadFileE == <<TextLine(1, Hu, Mz, 125), TextLine(2, Kg, Hu, 125)>>

InitFiles ==
    { <<(<<>>), (<<>>)>>,
      <<CityFileB, RoadFileA>>,
      <<CityFileB, RoadFileB>>,
      <<CityFileC, RoadFileB>>,
      <<CityFileA, RoadFileC>>,
      <<CityFileA, RoadFileD>>,
      <<CityFileA, RoadFileE>> }

Cur == [names |-> city_names, roads |-> roads, budgets |-> budgets]

StartWith(cf, rf) ==
    LET st == InfrastructureManager(cf, rf)
    IN /\ city_names = st.names
       /\ roads = st.roads
       /\ budgets = st.budgets
       /\ cityFile = cf
       /\ roadFile = rf
       /\ pc = "menu"

Init == \E f \in InitFiles : StartWith(f[1], f[2])

InitFresh == StartWith(<<>>, <<>>)

\* save_roads_to_file as a step: the prior file is read once, into
\* existing_roads, and the file is rewritten from the state st0
SaveRoads(st0) ==
    \E st \in {st0} : \E existing \in {ReadExisting(roadFile)} :
    \E sorted \in SortByNbr(UpdatedRoads(st, existing, 1, 2, <<>>)) :
        roadFile' = WriteRoads(sorted)

(***************************************************************************)
(* add_cities: k names, each accepted by the prompt loop of lines 278-291. *)
(***************************************************************************)
is_valid_city_count(names, count) ==
    count > 0 /\ count <= MAX_CITIES - Len(names)

RECURSIVE AcceptedNames(_, _)
AcceptedNames(names, new) ==
    IF new = <<>> THEN TRUE
    ELSE /\ Head(new) # <<>>
         /\ ~city_exists(names, Head(new))
         /\ is_valid_city_name(Head(new))
         /\ AcceptedNames(Append(names, Head(new)), Tail(new))

RECURSIVE PushCities(_, _)
PushCities(st, new) ==
    IF new = <<>> THEN st ELSE PushCities(PushCity(st, Head(new)), Tail(new))

add_cities(new) ==
    /\ pc = "menu"
    /\ is_valid_city_count(city_names, Len(new))
    /\ AcceptedNames(city_names, new)
    /\ LET st == PushCities(Cur, new)
       IN /\ city_names' = st.names
          /\ roads' = st.roads
          /\ budgets' = st.budgets
          /\ cityFile' = save_cities_to_file(st.names)
    /\ pc' = "menu"
    /\ UNCHANGED roadFile

(***************************************************************************)
(* add_road                                                                *)
(***************************************************************************)
add_road(city1, city2) ==
    /\ pc \in {"menu", "add_road"}
    /\ city_exists(city_names, city1)
    /\ city2 # city1
    /\ city_exists(city_names, city2)
    /\ roads[get_city_index(city_names, city1)][get_city_index(city_names, city2)] # 1
    /\ LET i == get_city_index(city_names, city1)
           j == get_city_index(city_names, city2)
       IN /\ roads' = SetCell(roads, i, j, 1)
          /\ SaveRoads([Cur EXCEPT !.roads = SetCell(roads, i, j, 1)])
    /\ pc' = "menu"
    /\ UNCHANGED <<city_names, budgets, cityFile>>

\* an answer one of the two prompt loops of add_road refuses (lines 309-312
\* and 317-322): the error is printed and the prompt comes again
add_road_refuses(city1, city2) ==
    IF ~city_exists(city_names, city1) THEN TRUE
    ELSE IF city2 = city1 THEN TRUE
    ELSE IF ~city_exists(city_names, city2) THEN TRUE
    ELSE roads[get_city_index(city_names, city1)]
              [get_city_index(city_names, city2)] = 1

add_road_refused(city1, city2) ==
    /\ pc \in {"menu", "add_road"}
    /\ add_road_refuses(city1, city2)
    /\ pc' = "add_road"
    /\ UNCHANGED data

(***************************************************************************)
(* add_budget                                                              *)
(***************************************************************************)
\* the same without the check of line 348
add_budget_AnyPair(city1, city2, budget) ==
    /\ pc \in {"menu", "add_budget"}
    /\ city_exists(city_names, city1)
    /\ city_exists(city_names, city2)
    /\ is_valid_budget(budget)
    /\ LET i == get_city_index(city_names, city1)
           j == get_city_index(city_names, city2)
       IN /\ budgets' = SetCell(budgets, i, j, budget)
          /\ SaveRoads([Cur EXCEPT !.budgets = SetCell(budgets, i, j, budget)])
    /\ pc' = "menu"
    /\ UNCHANGED <<city_names, roads, cityFile>>

\* the same without the check of line 359
add_budget_AnyBudget(city1, city2, budget) ==
    /\ pc \in {"menu", "add_budget"}
    /\ city_exists(city_names, city1)
    /\ city_exists(city_names, city2)
    /\ roads[get_city_index(city_names, city1)][get_city_index(city_names, city2)] # 0
    /\ LET i == get_city_index(city_names, city1)
           j == get_city_index(city_names, city2)
       IN /\ budgets' = SetCell(budgets, i, j, budget)
          /\ SaveRoads([Cur EXCEPT !.budgets = SetCell(budgets, i, j, budget)])
    /\ pc' = "menu"
    /\ UNCHANGED <<city_names, roads, cityFile>>

add_budget(city1, city2, budget) ==
    /\ pc \in {"menu", "add_budget"}
    /\ city_exists(city_names, city1)
    /\ city_exists(city_names, city2)
    /\ roads[get_city_index(city_names, city1)][get_city_index(city_names, city2)] # 0
    /\ is_valid_budget(budget)
    /\ LET i == get_city_index(city_names, city1)
           j == get_city_index(city_names, city2)
       IN /\ budgets' = SetCell(budgets, i, j, budget)
          /\ SaveRoads([Cur EXCEPT !.budgets = SetCell(budgets, i, j, budget)])
    /\ pc' = "menu"
    /\ UNCHANGED <<city_names, roads, cityFile>>

\* an answer one of the three prompt loops of add_budget refuses (lines
\* 340-341, 346-349 and 359-362)
add_budget_refuses(city1, city2, budget) ==
    IF ~city_exists(city_names, city1) THEN TRUE
    ELSE IF ~city_exists(city_names, city2) THEN TRUE
    ELSE IF roads[get_city_index(city_names, city1)]
                 [get_city_index(city_names, city2)] = 0 THEN TRUE
    ELSE ~is_valid_budget(budget)

add_budget_refused(city1, city2, budget) ==
    /\ pc \in {"menu", "add_budget"}
    /\ add_budget_refuses(city1, city2, budget)
    /\ pc' = "add_budget"
    /\ UNCHANGED data

(***************************************************************************)
(* edit_city (index as typed, 1-based)                                     *)
(***************************************************************************)
\* the same without the check of line 388
edit_city_AnyName(index, new_name) ==
    /\ pc = "menu"
    /\ is_valid_index(city_names, index)
    /\ new_name # <<>>
    /\ is_valid_city_name(new_name)
    /\ city_names' = [city_names EXCEPT ![index] = new_name]
    /\ cityFile' = save_cities_to_file([city_names EXCEPT ![index] = new_name])
    /\ SaveRoads([Cur EXCEPT !.names = [city_names EXCEPT ![index] = new_name]])
    /\ pc' = "menu"
    /\ UNCHANGED <<roads, budgets>>

edit_city(index, new_name) ==
    /\ pc = "menu"
    /\ is_valid_index(city_names, index)
    /\ new_name # <<>>
    /\ ~city_exists(city_names, new_name)
    /\ is_valid_city_name(new_name)
    /\ city_names' = [city_names EXCEPT ![index] = new_name]
    /\ cityFile' = save_cities_to_file([city_names EXCEPT ![index] = new_name])
    /\ SaveRoads([Cur EXCEPT !.names = [city_names EXCEPT ![index] = new_name]])
    /\ pc' = "menu"
    /\ UNCHANGED <<roads, budgets>>

(***************************************************************************)
(* Exit (menu choice 9) and a new run of main: the constructor loads the   *)
(* two files again.                                                        *)
(***************************************************************************)
Restart ==
    /\ pc = "menu"
    /\ LET st == InfrastructureManager(cityFile, roadFile)
       IN /\ city_names' = st.names
          /\ roads' = st.roads
          /\ budgets' = st.budgets
    /\ pc' = "menu"
    /\ UNCHANGED <<cityFile, roadFile>>

NewNames(typed) == UNION {[1..k -> typed] : k \in 1..MaxBatch}

(***************************************************************************)
(* The caps of a run: the city list and the number of roads grow, and the  *)
(* road file is rewritten, only within them.                               *)
(***************************************************************************)
RoadCount(m) ==
    Cardinality({e \in (1..Len(m)) \X (1..Len(m)) :
                    e[1] < e[2] /\ m[e[1]][e[2]] = 1})

Within(maxCities, maxRoads, maxNbr) ==
    /\ Len(city_names') > Len(city_names) => Len(city_names') <= maxCities
    /\ RoadCount(roads') > RoadCount(roads) => RoadCount(roads') <= maxRoads
    /\ roadFile' # roadFile =>
          \A k \in DOMAIN roadFile' : roadFile'[k].nbr <= maxNbr

\* add_road_refused and add_budget_refused for some answer drawn from
\* `typed`; every refused answer leads to the same state
RoadPromptRefuses(typed) ==
    IF /\ pc \in {"menu", "add_road"}
       /\ \E city1, city2 \in typed : add_road_refuses(city1, city2)
    THEN pc' = "add_road" /\ UNCHANGED data
    ELSE FALSE

BudgetPromptRefuses(typed) ==
    IF /\ pc \in {"menu", "add_budget"}
       /\ \E city1, city2 \in typed, budget \in InputBudgets :
             add_budget_refuses(city1, city2, budget)
    THEN pc' = "add_budget" /\ UNCHANGED data
    ELSE FALSE

\* one pass of the menu loop of main, the names typed drawn from `typed`
Menu(typed, maxCities, maxRoads, maxNbr) ==
    \/ \E new \in NewNames(typed) :
          add_cities(new) /\ Within(maxCities, maxRoads, maxNbr)
    \/ \E city1, city2 \in typed :
          add_road(city1, city2) /\ Within(maxCities, maxRoads, maxNbr)
    \/ \E city1, city2 \in typed, budget \in InputBudgets :
          add_budget(city1, city2, budget) /\ Within(maxCities, maxRoads, maxNbr)
    \/ \E index \in 0..(Len(city_names) + 1), new_name \in typed :
          edit_city(index, new_name) /\ Within(maxCities, maxRoads, maxNbr)
    \/ RoadPromptRefuses(typed)
    \/ BudgetPromptRefuses(typed)
    \/ Restart

Next == Menu(InputNames, MaxCities, MaxRoads, MaxNbr)

NextFresh == Menu(PlainNames, FreshCities, FreshRoads, FreshNbr)

NextFreshSep == Menu(InputNames, FreshCities, FreshRoads, FreshNbr)

\* any files at start-up, any valid name typed
Spec == Init /\ [][Next]_vars

\* the empty store at start-up, names without the separator
SpecFresh == InitFresh /\ [][NextFresh]_vars

\* the empty store at start-up, any valid name typed
SpecFreshSep == InitFresh /\ [][NextFreshSep]_vars

(***************************************************************************)
(* Vocabulary of the properties.                                           *)
(***************************************************************************)
Lines(file) == {file[k] : k \in DOMAIN file}

\* the pairs i < j that hold a road
EdgePairs(st) ==
    {e \in (1..Len(st.names)) \X (1..Len(st.names)) :
        e[1] < e[2] /\ st.roads[e[1]][e[2]] = 1}

\* the road column save_roads_to_file writes for the pair e
RoadText(names, e) == names[e[1]] \o Sep \o names[e[2]]

\* the same pair written in the other order
RoadTextRev(names, e) == names[e[2]] \o Sep \o names[e[1]]

\* the identifiers a file gives to the road column text
NbrsOf(file, text) == {l.nbr : l \in {l1 \in Lines(file) : l1.road = text}}

\* the highest identifier among the records the save parses, 0 for none
MaxPrior(prior) ==
    LET existing == ReadExisting(prior)
        nbrs == {existing[k].nbr : k \in DOMAIN existing}
    IN IF nbrs = {} THEN 0 ELSE CHOOSE n \in nbrs : \A m \in nbrs : m <= n

\* the roads of st that match no record of the prior file
Unmatched(prior, st) ==
    {e \in EdgePairs(st) :
        FirstMatch(ReadExisting(prior), st.names[e[1]], st.names[e[2]]) = 0}

\* The step is a step of the handler, for some answers to its prompts.
\* The answers are read off the step: edit_city leaves the new name at the
\* index, add_road and add_budget accept the names of two cities only, and
\* add_budget leaves the budget in the cell.
EditStep ==
    /\ Len(city_names') = Len(city_names)
    /\ \E index \in 1..Len(city_names) : edit_city(index, city_names'[index])

BudgetStep ==
    /\ Len(budgets') = Len(budgets)
    /\ \E i, j \in 1..Len(city_names) :
          add_budget(city_names[i], city_names[j], budgets'[i][j])

RoadStep ==
    \E i, j \in 1..Len(city_names) : add_road(city_names[i], city_names[j])

RoadSaveStep == RoadStep \/ BudgetStep \/ EditStep

(***************************************************************************)
(* C1  Identifier monotonicity.  In every save in which k >= 1 roads match *)
(* no record of the prior file, those k roads receive exactly the k        *)
(* identifiers max_prior + 1 .. max_prior + k, one each, and every road    *)
(* that matched keeps the identifier of its record.                        *)
(***************************************************************************)
MonotonicSave(prior, st, new) ==
    LET existing == ReadExisting(prior)
        fresh == Unmatched(prior, st)
        k == Cardinality(fresh)
        base == MaxPrior(prior)
    IN /\ \A e \in fresh :
            Cardinality(NbrsOf(new, RoadText(st.names, e))) = 1
       /\ k >= 1 =>
            UNION {NbrsOf(new, RoadText(st.names, e)) : e \in fresh}
                = (base + 1)..(base + k)
       /\ \A e \in EdgePairs(st) \ fresh :
            NbrsOf(new, RoadText(st.names, e)) =
                {existing[FirstMatch(existing, st.names[e[1]],
                                     st.names[e[2]])].nbr}

C1_IdentifierMonotonicity ==
    [][RoadSaveStep => MonotonicSave(roadFile, Cur', roadFile')]_vars

(***************************************************************************)
(* C2  Rename propagation.  When edit_city renames a city, every road that *)
(* has a record in the road file keeps that record's identifier and budget *)
(* in the file written by the edit; only the name in the road column       *)
(* changes, and only for the roads at the renamed city.                    *)
(***************************************************************************)
RenameKeepsRecords(prior, old, st, new) ==
    \A e \in EdgePairs(st) :
        \A l \in {l1 \in Lines(prior) : l1.road = RoadText(old, e)} :
            [l EXCEPT !.road = RoadText(st.names, e)] \in Lines(new)

C2_RenamePropagation ==
    [][EditStep => RenameKeepsRecords(roadFile, city_names, Cur', roadFile')]_vars

(***************************************************************************)
(* C3  Round trip.  Saving the two files and constructing a manager from   *)
(* them gives back the city list, the set of roads and their budgets.      *)
(***************************************************************************)
SameGraph(st1, st2) ==
    /\ st1.names = st2.names
    /\ EdgePairs(st1) = EdgePairs(st2)
    /\ \A e \in EdgePairs(st1) : st1.budgets[e[1]][e[2]] = st2.budgets[e[1]][e[2]]

C3_RoundTrip ==
    \A rf \in save_roads_to_file(Cur, roadFile) :
        SameGraph(InfrastructureManager(save_cities_to_file(city_names), rf), Cur)

(***************************************************************************)
(* C4  Identifiers are never reused.  Once the road file has held an       *)
(* identifier on the record of one pair of positions, a later save does    *)
(* not write that identifier on the record of another pair.  Stated for    *)
(* one save and the file it replaces.                                      *)
(***************************************************************************)
NoReuse(prior, old, st, new) ==
    \A e1 \in (1..Len(old)) \X (1..Len(old)) :
        \A e2 \in EdgePairs(st) :
            (NbrsOf(prior, RoadText(old, e1)) \cap
             NbrsOf(new, RoadText(st.names, e2)) # {}) => e1 = e2

C4_NeverReused ==
    [][RoadSaveStep => NoReuse(roadFile, city_names, Cur', roadFile')]_vars

(***************************************************************************)
(* C5  Identifiers never collide.  Starting from the empty store, no two   *)
(* records of the road file carry the same identifier.                     *)
(***************************************************************************)
C5_NoCollision ==
    \A k1, k2 \in DOMAIN roadFile :
        k1 # k2 => roadFile[k1].nbr # roadFile[k2].nbr

(***************************************************************************)
(* C6  Base of new identifiers.  Whatever the prior file holds and in      *)
(* whatever order, a road that matches no record receives the highest      *)
(* identifier among the parsed records plus one, and 1 when there are no   *)
(* records.                                                                *)
(***************************************************************************)
NewFromHighest(prior, st, new) ==
    \A e \in Unmatched(prior, st) :
        NbrsOf(new, RoadText(st.names, e)) = {MaxPrior(prior) + 1}

C6_BaseOfNewIdentifiers ==
    [][RoadSaveStep => NewFromHighest(roadFile, Cur', roadFile')]_vars

(***************************************************************************)
(* C7  Identifier stability.  In every reachable state, saving the roads   *)
(* twice in a row without a change in memory leaves the same records both  *)
(* times.                                                                  *)
(***************************************************************************)
C7_IdempotentSave ==
    \A f1 \in save_roads_to_file(Cur, roadFile) :
        \A f2 \in save_roads_to_file(Cur, f1) : Lines(f2) = Lines(f1)

(***************************************************************************)
(* C8  Match keeps the identifier.  In every save, a road whose pair of    *)
(* names is the road column of a record of the prior file, in either       *)
(* order, is written with that record's identifier, the current names and  *)
(* the current budget; and the save of add_budget changes nothing in the   *)
(* file but the budget column of the record of the road it was given.      *)
(***************************************************************************)
RecordsOf(prior, names, e) ==
    {l \in Lines(prior) :
        /\ l.tabs /\ l.nbrOk /\ l.budgetOk
        /\ l.road \in {RoadText(names, e), RoadTextRev(names, e)}}

MatchKeepsNbr(prior, st, new) ==
    \A e \in EdgePairs(st) :
        RecordsOf(prior, st.names, e) # {} =>
            \E l \in RecordsOf(prior, st.names, e) :
                {l1 \in Lines(new) : l1.road = RoadText(st.names, e)} =
                    {RoadLine(l.nbr, st.names[e[1]], st.names[e[2]],
                              st.budgets[e[1]][e[2]])}

OnlyBudgetChanges(prior, st, new) ==
    \E e \in EdgePairs(st) :
        Lines(new) =
            {IF l.road = RoadText(st.names, e)
             THEN [l EXCEPT !.budget = FormatBudget(st.budgets[e[1]][e[2]])]
             ELSE l : l \in Lines(prior)}

C8_MatchKeepsIdentifier ==
    [][/\ RoadSaveStep => MatchKeepsNbr(roadFile, Cur', roadFile')
       /\ BudgetStep => OnlyBudgetChanges(roadFile, Cur', roadFile')]_vars

(***************************************************************************)
(* C9  Matrix symmetry.  In every reachable state both matrices are        *)
(* symmetric.                                                              *)
(***************************************************************************)
C9_MatrixSymmetry ==
    \A i, j \in 1..Len(city_names) :
        roads[i][j] = roads[j][i] /\ budgets[i][j] = budgets[j][i]

\* a road added by add_road between two cities added by add_cities, with
\* a budget typed at add_budget
C9_Witness ==
    /\ cityFile = save_cities_to_file(city_names)
    /\ \E i, j \in 1..Len(city_names) :
          i # j /\ roads[i][j] = 1 /\ budgets[i][j] = 1254

(***************************************************************************)
(* C10  Zero diagonal.  In every reachable state, whatever road file was   *)
(* loaded, no city has a road or a budget to itself.                       *)
(***************************************************************************)
C10_ZeroDiagonal ==
    \A i \in 1..Len(city_names) : roads[i][i] = 0 /\ budgets[i][i] = 0

(***************************************************************************)
(* C11  Load discard rule.  After the constructor has loaded the two       *)
(* files, positions i and j hold a road if and only if some line of the    *)
(* road file names the cities at i and j (in either order) and carries a   *)
(* budget with 0 < budget <= 1000; every other cell of both matrices is 0, *)
(* and a line that is discarded does not keep a later line from loading.   *)
(***************************************************************************)
\* the line is a record of the cities at positions i and j, budget valid
GivesRoad(names, line, i, j) ==
    /\ line.tabs /\ line.budgetOk
    /\ \E k \in 1..Len(line.road) :
          /\ IsAt(line.road, Sep, k)
          /\ \A k2 \in 1..(k - 1) : ~IsAt(line.road, Sep, k2)
          /\ names[i] = SubSeq(line.road, 1, k - 1)
          /\ names[j] = SubSeq(line.road, k + 3, Len(line.road))
    /\ line.budget > 0 /\ line.budget <= 10000

LoadRule(st, rf) ==
    \A i, j \in 1..Len(st.names) :
        LET recorded == \E k \in DOMAIN rf :
                            GivesRoad(st.names, rf[k], i, j)
                            \/ GivesRoad(st.names, rf[k], j, i)
        IN /\ st.roads[i][j] = 1 <=> recorded
           /\ ~recorded => st.roads[i][j] = 0 /\ st.budgets[i][j] = 0

C11_LoadDiscardRule ==
    LoadRule(InfrastructureManager(cityFile, roadFile), roadFile)

\* the manager was just loaded from a road file in which a line that is
\* discarded comes before a line that gives a road
C11_Witness ==
    /\ Cur = InfrastructureManager(cityFile, roadFile)
    /\ \E k, m \in DOMAIN roadFile, i, j \in 1..Len(city_names) :
          /\ k < m
          /\ \A p, q \in 1..Len(city_names) :
                ~GivesRoad(city_names, roadFile[k], p, q)
          /\ GivesRoad(city_names, roadFile[m], i, j)
          /\ roads[i][j] = 1

(***************************************************************************)
(* C12  Save rewrites exactly the current edges.  Right after a handler    *)
(* has saved the roads, the records of the road file and the pairs i < j   *)
(* that hold a road correspond one to one; the record of a pair is a       *)
(* well-formed line whose road column is the current names of i and j and  *)
(* whose budget column is budgets[i][j] in the file's one-decimal format.  *)
(* No record of the prior file that has no road now is left.               *)
(***************************************************************************)
Carries(line, st, e) ==
    /\ line.tabs /\ line.nbrOk /\ line.budgetOk
    /\ line.road = RoadText(st.names, e)
    /\ line.budget = FormatBudget(st.budgets[e[1]][e[2]])

ExactlyCurrentEdges(st, new) ==
    \E f \in [DOMAIN new -> EdgePairs(st)] :
        /\ \A e \in EdgePairs(st) : \E k \in DOMAIN new : f[k] = e
        /\ \A k1, k2 \in DOMAIN new : f[k1] = f[k2] => k1 = k2
        /\ \A k \in DOMAIN new : Carries(new[k], st, f[k])

C12_SaveRewritesCurrentEdges ==
    [][RoadSaveStep => ExactlyCurrentEdges(Cur', roadFile')]_vars

\* started from a road file with a record of an unknown city and a record
\* 'Hu - Kg'; add_budget Hu Kg 12.54 has saved the one road
C12_Witness ==
    /\ cityFile = CityFileB
    /\ budgets[1][2] = 1254
    /\ roadFile = <<TextLine(1, Kg, Hu, 125)>>

(***************************************************************************)
(* C13  Nothing is ever removed.  In every step, a restart that reloads    *)
(* the saved files included, the number of cities does not decrease and    *)
(* every road between two positions is still there after the step.         *)
(***************************************************************************)
NothingRemoved ==
    /\ Len(city_names') >= Len(city_names)
    /\ \A i, j \in 1..Len(city_names) : roads[i][j] = 1 => roads'[i][j] = 1

C13_NothingRemoved == [][NothingRemoved]_vars

(***************************************************************************)
(* C14  City names are unique and positions are stable.  No two positions  *)
(* of city_names hold the same name; a step that is not a rename leaves    *)
(* every name at its position (add_cities appends, a reload reads the      *)
(* names back in order), and a rename changes the name at one position.    *)
(***************************************************************************)
UniqueNames ==
    \A i, j \in 1..Len(city_names) : city_names[i] = city_names[j] => i = j

PositionsStable ==
    /\ Len(city_names') >= Len(city_names)
    /\ EditStep \/ \A i \in 1..Len(city_names) : city_names'[i] = city_names[i]
    /\ EditStep =>
          /\ Len(city_names') = Len(city_names)
          /\ \E index \in 1..Len(city_names) :
                \A i \in 1..Len(city_names) \ {index} :
                    city_names'[i] = city_names[i]

C14_UniqueStableNames ==
    UniqueNames /\ [][UniqueNames' /\ PositionsStable]_vars

\* two cities, the first one renamed to Mz by edit_city
C14_Witness ==
    /\ city_names = <<Mz, Hu>>
    /\ cityFile = save_cities_to_file(city_names)

(***************************************************************************)
(* C15  Rejected requests change nothing.  An add_road request that names  *)
(* the same city twice, an unknown city or a pair that already has a road, *)
(* and an add_budget request that names an unknown city, a pair with no    *)
(* road or a budget outside 0 < budget <= 1000, leaves city_names, both    *)
(* matrices and both files as they were, and the program stays at the      *)
(* prompt of the handler.                                                  *)
(***************************************************************************)
HasRoad(city1, city2) ==
    IF city_exists(city_names, city1) /\ city_exists(city_names, city2)
    THEN roads[get_city_index(city_names, city1)]
              [get_city_index(city_names, city2)] = 1
    ELSE FALSE

RoadRequestRejected(city1, city2) ==
    \/ city1 = city2
    \/ ~city_exists(city_names, city1)
    \/ ~city_exists(city_names, city2)
    \/ HasRoad(city1, city2)

BudgetRequestRejected(city1, city2, budget) ==
    \/ ~city_exists(city_names, city1)
    \/ ~city_exists(city_names, city2)
    \/ ~HasRoad(city1, city2)
    \/ ~(0 < budget /\ budget <= 100000)

\* Such a request is not one the handler accepts, and where the handler
\* can be asked it is one the handler refuses ...
RejectedIsRefused ==
    /\ \A city1, city2 \in AllNames :
          RoadRequestRejected(city1, city2) =>
              /\ ~ENABLED add_road(city1, city2)
              /\ pc \in {"menu", "add_road"} =>
                     ENABLED add_road_refused(city1, city2)
    /\ \A city1, city2 \in AllNames, budget \in InputBudgets :
          BudgetRequestRejected(city1, city2, budget) =>
              /\ ~ENABLED add_budget(city1, city2, budget)
              /\ pc \in {"menu", "add_budget"} =>
                     ENABLED add_budget_refused(city1, city2, budget)

\* ... and a step that ends at the prompt of a handler, which is what a
\* refusal is, leaves the data
RefusedLeavesData ==
    pc' \in {"add_road", "add_budget"} => UNCHANGED data

C15_RejectedChangeNothing ==
    []RejectedIsRefused /\ [][RefusedLeavesData]_vars

\* an answer to add_budget was refused while a road holds a budget, and
\* an answer to add_road while there is a road
C15_Witness ==
    /\ \E i, j \in 1..Len(city_names) :
          i # j /\ roads[i][j] = 1 /\ budgets[i][j] = 1254
    /\ pc \in {"add_budget", "add_road"}

(***************************************************************************)
(* C16  City operations do not touch edge data.  add_cities and a line     *)
(* accepted by load_cities_from_file keep every cell of the positions that *)
(* existed and give the added city a row and a column of zeros; edit_city  *)
(* leaves both matrices as they were.                                      *)
(***************************************************************************)
KeepsEdgeData(old, new) ==
    /\ \A i, j \in 1..Len(old.names) :
          /\ new.roads[i][j] = old.roads[i][j]
          /\ new.budgets[i][j] = old.budgets[i][j]
    /\ \A k \in (Len(old.names) + 1)..Len(new.names), j \in 1..Len(new.names) :
          /\ new.roads[k][j] = 0 /\ new.roads[j][k] = 0
          /\ new.budgets[k][j] = 0 /\ new.budgets[j][k] = 0

\* the step is add_cities, of the names the list has gained
AddStep ==
    /\ Len(city_names') > Len(city_names)
    /\ add_cities(SubSeq(city_names', Len(city_names) + 1, Len(city_names')))

\* load_cities_from_file reading one more line into the current manager
LoadKeepsEdgeData ==
    \A name \in AllNames :
        KeepsEdgeData(Cur, load_cities_from_file(Cur, <<CityLine(name)>>))

C16_CityOpsKeepEdgeData ==
    /\ []LoadKeepsEdgeData
    /\ [][/\ AddStep => KeepsEdgeData(Cur, Cur')
          /\ EditStep => roads' = roads /\ budgets' = budgets]_vars

\* a city was added by add_cities to a manager whose matrices held a road
\* and a budget (loaded from a record that names one city twice)
C16_Witness ==
    /\ Len(city_names) = 2
    /\ cityFile = save_cities_to_file(city_names)
    /\ roadFile = RoadFileB
    /\ roads[1][1] = 1 /\ budgets[1][1] = 1250

(***************************************************************************)
(* C17  Matrix dimensions track the city count.  In every reachable state  *)
(* roads and budgets have one row per city and every row has one cell per  *)
(* city, so an index that get_city_index returns is a row and a column of  *)
(* both matrices.                                                          *)
(***************************************************************************)
Square(m, n) == Len(m) = n /\ \A r \in 1..Len(m) : Len(m[r]) = n

C17_MatrixDimensions ==
    /\ Square(roads, Len(city_names))
    /\ Square(budgets, Len(city_names))
    /\ \A name \in AllNames :
          get_city_index(city_names, name) \in 0..Len(roads)

\* two cities added by add_cities, one after the other or together, and a
\* road between them
C17_Witness ==
    /\ Len(city_names) = 2
    /\ cityFile = save_cities_to_file(city_names)
    /\ roads[1][2] = 1
    /\ roadFile # <<>> /\ roadFile[1].road = RoadText(city_names, <<1, 2>>)

(***************************************************************************)
(* C18  Saved records are ordered by identifier.  In the road file a       *)
(* handler has just saved, identifiers do not decrease from one record to  *)
(* the next, and the last record carries the highest identifier.           *)
(***************************************************************************)
OrderedByNbr(file) ==
    /\ \A k \in 1..(Len(file) - 1) : file[k].nbr <= file[k + 1].nbr
    /\ \A k \in DOMAIN file : file[k].nbr <= file[Len(file)].nbr

C18_SavedRecordsOrdered == [][RoadSaveStep => OrderedByNbr(roadFile')]_vars

\* add_budget Kg Hu 12.54 has saved two roads whose identifiers run
\* against the order of their positions
C18_Witness ==
    /\ Len(city_names) = 3
    /\ budgets[1][2] = 1254
    /\ roadFile = <<TextLine(1, Hu, Mz, 125), TextLine(2, Kg, Hu, 125)>>

(***************************************************************************)
(* C19  Budgets exist only on roads and stay in range.  In every reachable *)
(* state every cell of budgets is 0 or lies in 0 < budget <= 1000, and a   *)
(* cell that is not 0 belongs to a pair that has a road.                   *)
(***************************************************************************)
C19_BudgetsOnRoadsInRange ==
    \A i, j \in 1..Len(city_names) :
        /\ budgets[i][j] = 0 \/ (0 < budgets[i][j] /\ budgets[i][j] <= 100000)
        /\ budgets[i][j] # 0 => roads[i][j] = 1

\* from the empty store: a road, its budget typed as 12.54, and the
\* manager loaded again from the files written
C19_Witness ==
    /\ Len(city_names) = 2
    /\ cityFile = save_cities_to_file(city_names)
    /\ roadFile = <<TextLine(1, city_names[1], city_names[2], 125)>>
    /\ roads[1][2] = 1 /\ budgets[1][2] = 1250

(***************************************************************************)
(* C20  City ceiling.  The number of cities is at most MAX_CITIES in every *)
(* reachable state, and in the manager the constructor loads from a city   *)
(* file with any number of valid, distinct names; here, one name more than *)
(* the ceiling.                                                            *)
(***************************************************************************)
Letters == <<"K", "g", "H", "u", "M", "z", "X">>

\* the k-th name of four letters
NameNo(k) ==
    <<Letters[((k \div 343) % 7) + 1], Letters[((k \div 49) % 7) + 1],
      Letters[((k \div 7) % 7) + 1], Letters[(k % 7) + 1]>>

FullCityFile == [k \in 1..(MAX_CITIES + 1) |-> CityLine(NameNo(k))]

\* the names load_cities_from_file has after the lines (lines 202-207, the
\* matrices left out); the loop over the lines is taken by halves, the
\* first half evaluated (its length read) before the second starts
RECURSIVE LoadedNames(_, _)
LoadedNames(names, lines) ==
    IF lines = <<>> THEN names
    ELSE IF Len(lines) = 1
    THEN IF /\ lines[1].tab
            /\ is_valid_city_name(lines[1].name)
            /\ ~city_exists(names, lines[1].name)
         THEN Append(names, lines[1].name)
         ELSE names
    ELSE LET half == Len(lines) \div 2
             first == LoadedNames(names, SubSeq(lines, 1, half))
         IN IF Len(first) >= Len(names)
            THEN LoadedNames(first, SubSeq(lines, half + 1, Len(lines)))
            ELSE first

\* on the city file of every reachable state, the same names as the
\* constructor's load
LoadedNamesAgree ==
    LoadedNames(<<>>, cityFile)
        = load_cities_from_file(EmptyState, cityFile).names

C20_CityCeiling ==
    /\ Len(city_names) <= MAX_CITIES
    /\ Len(LoadedNames(<<>>, FullCityFile)) <= MAX_CITIES

====
